---- MODULE Spec2Model ----
(***************************************************************************)
(* The user-management server actions of LibraLink: the users table, the   *)
(* role gate, and the list / get / create / update / delete / stats and    *)
(* self-service handlers.  The repository holds two versions of the        *)
(* actions module: one soft-deletes and filters inactive rows out of the   *)
(* statistics (Spec), the other deletes rows and counts every row         *)
(* (SpecHard).  A deployment resolves the module to one of them.           *)
(***************************************************************************)
EXTENDS Integers, FiniteSets, Sequences, TLC

VARIABLES
    users,      \* the users table: id -> row, for the ids present
    nextId,     \* the id the next INSERT gives its row
    pending,    \* requests between two of their database statements
    listed      \* the most recent getUsers(role, search) call and its result

vars == <<users, nextId, pending, listed>>

(* ------------------------------ bounds -------------------------------- *)

\* Rows ever inserted.
MaxUsers == 2

\* Concurrent requests in flight.
NumProcs == 2

Procs == 1..NumProcs

Emails == {"a@lib.edu", "b@lib.edu"}

Passwords == {"pw1", "pw2"}

Names == {"alice smith", "Bob"}

(* ----------------------------- the types ------------------------------ *)

Roles == {"student", "faculty", "librarian", "admin"}

Statuses == {"active", "suspended", "inactive"}

\* JavaScript's null and undefined, and the empty string (falsy).
Null == "null"

Undefined == "undefined"

EmptyString == ""

\* What an INSERT that names no status stores.
DefaultStatus == "active"

\* A handler's returned entity: null, undefined (result[0] of no rows), a row.
NullUser == <<"null">>

UndefinedUser == <<"undefined">>

SomeUser(id, row) == <<"row", id, row>>

(* ------------------------------ sessions ------------------------------ *)

\* getSession() of a request without a session: { user: null }.
NoUser == [id |-> 0, role |-> "none"]

\* The roles the sessions of the model hold.
SessionRoles == {"admin", "librarian"}

\* The sessions a request can carry: none, or a user that was created, with
\* the role the session holds for it.
Callers(nid) ==
    {NoUser} \cup {[id |-> i, role |-> r] : i \in 1..(nid - 1), r \in SessionRoles}

\* requireRole(roles): TRUE when it returns, FALSE when it throws.
requireRole(caller, roles) == caller # NoUser /\ caller.role \in roles

(* ------------------------------ hashing ------------------------------- *)

\* SHA-256, hex, of the passwords of the model.
hashPassword(password) ==
    CASE password = "pw1" ->
             "c592df4a86933b92addc9842402ddf198c638ea9be58916ee6e3734e1e3152f8"
      [] password = "pw2" ->
             "93915a0a4bf8f634cb1856494dd4304472ad46b9827f541f76b6761c49cc55b0"

(* ------------------------------ the table ----------------------------- *)

Row(email, password_hash, full_name, role, status) ==
    [email |-> email, password_hash |-> password_hash, full_name |-> full_name,
     role |-> role, status |-> status]

\* SelectIdByEmail that looks at the rows that are not soft-deleted only.
SelectIdByEmail_NotInactive(u, e) ==
    {id \in DOMAIN u : u[id].email = e /\ u[id].status # "inactive"}

\* SELECT id FROM users WHERE email = e
SelectIdByEmail(u, e) == {id \in DOMAIN u : u[id].email = e}

\* SELECT id FROM users WHERE email = e AND id != self
SelectIdByEmailExcept(u, e, self) == {id \in DOMAIN u : u[id].email = e /\ id # self}

\* INSERT INTO users (...) VALUES (...): a new row under the next id.
InsertUser(u, nid, row) == [id \in DOMAIN u \cup {nid} |-> IF id = nid THEN row ELSE u[id]]

\* UpdateRow without its WHERE: every row is updated.
UpdateRow_AllRows(u, id, d) ==
    [i \in DOMAIN u |-> [f \in DOMAIN u[i] |-> IF f \in DOMAIN d THEN d[f] ELSE u[i][f]]]

\* UPDATE users SET f = d[f], ... WHERE id = id, for the fields of d.
UpdateRow(u, id, d) ==
    [i \in DOMAIN u |->
        IF i = id
        THEN [f \in DOMAIN u[i] |-> IF f \in DOMAIN d THEN d[f] ELSE u[i][f]]
        ELSE u[i]]

\* DELETE FROM users WHERE id = id
DeleteRow(u, id) == [i \in DOMAIN u \ {id} |-> u[i]]

\* result[0] of an UPDATE ... RETURNING *
Returning(u, id) == IF id \in DOMAIN u THEN SomeUser(id, u[id]) ELSE UndefinedUser

(* ------------------------ results of a handler ------------------------ *)

\* A handler that returned { user, error }, leaving the table u and the id
\* counter nid, after `reads` SELECTs and `writes` INSERT/UPDATE/DELETEs.
Return(u, nid, user, error, reads, writes) ==
    [kind |-> "return", user |-> user, error |-> error, users |-> u, nextId |-> nid,
     reads |-> reads, writes |-> writes]

\* requireRole threw: the handler's body stops before any statement.
Throw(u, nid) ==
    [kind |-> "throw", user |-> NullUser, error |-> "Unauthorized", users |-> u,
     nextId |-> nid, reads |-> 0, writes |-> 0]

\* try { body } catch (err) { return { user, error: message } }
Catch(o, user, message) ==
    IF o.kind = "throw" THEN [o EXCEPT !.kind = "return", !.user = user, !.error = message]
    ELSE o

\* The handlers that return { error } only have no entity in their result.
NoEntity == <<"none">>

(* ------------------------------ listing ------------------------------- *)

\* SELECT * FROM users WHERE status != 'inactive' [AND role = r]: the ids of
\* the rows.  r = Undefined stands for no role filter.
ListedIds(u, r) ==
    {id \in DOMAIN u : u[id].status # "inactive" /\ (r # Undefined => u[id].role = r)}

\* getUsers(role): requireRole is outside any try, so its throw escapes.
getUsers(u, nid, caller, r) ==
    IF ~requireRole(caller, {"admin"}) THEN [kind |-> "throw", ids |-> {}, reads |-> 0]
    ELSE [kind |-> "return", ids |-> ListedIds(u, r), reads |-> 1]

\* getUserById(id): no role gate.
getUserById(u, id) == IF id \in DOMAIN u THEN SomeUser(id, u[id]) ELSE NullUser

(* ----------------------------- createUser ----------------------------- *)

NewRow(data) ==
    Row(data.email, hashPassword(data.password), data.full_name, data.role, DefaultStatus)

\* createUserBody without its role gate.
createUserBody_NoGate(u, nid, caller, data) ==
    IF SelectIdByEmail(u, data.email) # {}
    THEN Return(u, nid, NullUser, "Email already exists", 1, 0)
    ELSE Return(InsertUser(u, nid, NewRow(data)), nid + 1,
                SomeUser(nid, NewRow(data)), Null, 1, 1)

createUserBody(u, nid, caller, data) ==
    IF ~requireRole(caller, {"admin"}) THEN Throw(u, nid)
    ELSE IF SelectIdByEmail(u, data.email) # {}
         THEN Return(u, nid, NullUser, "Email already exists", 1, 0)
         ELSE Return(InsertUser(u, nid, NewRow(data)), nid + 1,
                     SomeUser(nid, NewRow(data)), Null, 1, 1)

createUser(u, nid, caller, data) ==
    Catch(createUserBody(u, nid, caller, data), NullUser, "Failed to create user")

(* ----------------------------- updateUser ----------------------------- *)

UpdateFields == {"full_name", "role", "status"}

FieldValues(f) ==
    CASE f = "full_name" -> Names
      [] f = "role" -> Roles
      [] f = "status" -> Statuses

\* The payloads of updateUser: the empty object, and every object that gives
\* each field a value or undefined.
UpdateData ==
    {[f \in {} |-> Undefined]}
    \cup {d \in [UpdateFields -> Names \cup Roles \cup Statuses \cup {Undefined}] :
             \A f \in UpdateFields : d[f] \in FieldValues(f) \cup {Undefined}}

\* DefinedPart without the test of the value.
DefinedPart_KeepUndefined(d) == d

\* Object.entries(data) with value !== undefined
DefinedPart(d) == [f \in {g \in DOMAIN d : d[g] # Undefined} |-> d[f]]

updateUserBody(u, nid, caller, id, data) ==
    IF ~requireRole(caller, {"admin"}) THEN Throw(u, nid)
    ELSE IF DOMAIN DefinedPart(data) = {}
         THEN Return(u, nid, NullUser, "No updates provided", 0, 0)
         ELSE Return(UpdateRow(u, id, DefinedPart(data)), nid,
                     Returning(UpdateRow(u, id, DefinedPart(data)), id), Null, 0, 1)

updateUser(u, nid, caller, id, data) ==
    Catch(updateUserBody(u, nid, caller, id, data), NullUser, "Failed to update user")

(* ------------------- updateUserRole, updateUserStatus ----------------- *)

\* updateUserRoleBody that sets the status too.
updateUserRoleBody_SetsStatus(u, nid, caller, id, role) ==
    IF ~requireRole(caller, {"admin"}) THEN Throw(u, nid)
    ELSE Return(UpdateRow(u, id, [f \in {"role", "status"} |->
                                     IF f = "role" THEN role ELSE "active"]),
                nid, NoEntity, Null, 0, 1)

updateUserRoleBody(u, nid, caller, id, role) ==
    IF ~requireRole(caller, {"admin"}) THEN Throw(u, nid)
    ELSE Return(UpdateRow(u, id, [f \in {"role"} |-> role]), nid, NoEntity, Null, 0, 1)

updateUserRole(u, nid, caller, id, role) ==
    Catch(updateUserRoleBody(u, nid, caller, id, role), NoEntity, "Failed to update role")

updateUserStatusBody(u, nid, caller, id, status) ==
    IF ~requireRole(caller, {"admin"}) THEN Throw(u, nid)
    ELSE Return(UpdateRow(u, id, [f \in {"status"} |-> status]), nid, NoEntity, Null, 0, 1)

updateUserStatus(u, nid, caller, id, status) ==
    Catch(updateUserStatusBody(u, nid, caller, id, status), NoEntity,
          "Failed to update status")

(* ----------------------------- deleteUser ----------------------------- *)

\* deleteUserBody that suspends the user.
deleteUserBody_Suspend(u, nid, caller, id) ==
    IF ~requireRole(caller, {"admin"}) THEN Throw(u, nid)
    ELSE Return(UpdateRow(u, id, [f \in {"status"} |-> "suspended"]), nid, NoEntity, Null, 0, 1)

\* The soft delete: UPDATE users SET status = 'inactive' WHERE id = id
deleteUserBody(u, nid, caller, id) ==
    IF ~requireRole(caller, {"admin"}) THEN Throw(u, nid)
    ELSE Return(UpdateRow(u, id, [f \in {"status"} |-> "inactive"]), nid, NoEntity, Null, 0, 1)

deleteUser(u, nid, caller, id) ==
    Catch(deleteUserBody(u, nid, caller, id), NoEntity, "Failed to delete user")

\* The other version: DELETE FROM users WHERE id = id
deleteUserPermanentBody(u, nid, caller, id) ==
    IF ~requireRole(caller, {"admin"}) THEN Throw(u, nid)
    ELSE Return(DeleteRow(u, id), nid, NoEntity, Null, 0, 1)

deleteUserPermanent(u, nid, caller, id) ==
    Catch(deleteUserPermanentBody(u, nid, caller, id), NoEntity, "Failed to delete user")

(* ---------------------------- getUserStats ---------------------------- *)

\* COUNT(*) FILTER (WHERE role IN roles AND status IN statuses)
CountWhere(u, roles, statuses) ==
    Cardinality({id \in DOMAIN u : u[id].role \in roles /\ u[id].status \in statuses})

\* The version that excludes inactive rows.
getUserStats(u) ==
    [total_users  |-> CountWhere(u, Roles, Statuses \ {"inactive"}),
     students     |-> CountWhere(u, {"student"}, Statuses \ {"inactive"}),
     faculty      |-> CountWhere(u, {"faculty"}, Statuses \ {"inactive"}),
     librarians   |-> CountWhere(u, {"librarian"}, Statuses \ {"inactive"}),
     admins       |-> CountWhere(u, {"admin"}, Statuses \ {"inactive"}),
     active_users |-> CountWhere(u, Roles, {"active"})]

\* The other version: every row counts.
getUserStatsAll(u) ==
    [total_users  |-> Cardinality(DOMAIN u),
     students     |-> CountWhere(u, {"student"}, Statuses),
     faculty      |-> CountWhere(u, {"faculty"}, Statuses),
     librarians   |-> CountWhere(u, {"librarian"}, Statuses),
     admins       |-> CountWhere(u, {"admin"}, Statuses),
     active_users |-> CountWhere(u, Roles, {"active"})]

(* ---------------------- updateCurrentUserProfile ---------------------- *)

\* if (value): neither undefined nor the empty string.
Truthy(v) == v # Undefined /\ v # EmptyString

ProfileData ==
    [full_name : Names \cup {Undefined, EmptyString},
     email : Emails \cup {Undefined, EmptyString}]

\* The updates the handler collects: full_name and email, when truthy.
ProfileUpdates(data) == [f \in {g \in {"full_name", "email"} : Truthy(data[g])} |-> data[f]]

updateCurrentUserProfile(u, nid, caller, data) ==
    IF caller = NoUser THEN Return(u, nid, NullUser, "Not authenticated", 0, 0)
    ELSE IF Truthy(data.email) /\ SelectIdByEmailExcept(u, data.email, caller.id) # {}
         THEN Return(u, nid, NullUser, "Email already in use", 1, 0)
         ELSE IF DOMAIN ProfileUpdates(data) = {}
              THEN Return(u, nid, NullUser, "No updates provided", 0, 0)
              ELSE Return(UpdateRow(u, caller.id, ProfileUpdates(data)), nid,
                          Returning(UpdateRow(u, caller.id, ProfileUpdates(data)), caller.id),
                          Null, IF Truthy(data.email) THEN 1 ELSE 0, 1)

(* ---------------------- updateCurrentUserPassword --------------------- *)

\* SELECT password_hash FROM users WHERE id = id
SelectPasswordHash(u, id) == {u[i].password_hash : i \in DOMAIN u \cap {id}}

\* updateCurrentUserPassword that does not compare the current password.
updateCurrentUserPassword_NoCompare(u, nid, caller, currentPassword, newPassword) ==
    IF caller = NoUser THEN Return(u, nid, NoEntity, "Not authenticated", 0, 0)
    ELSE IF SelectPasswordHash(u, caller.id) = {}
         THEN Return(u, nid, NoEntity, "Current password is incorrect", 1, 0)
         ELSE Return(UpdateRow(u, caller.id,
                               [f \in {"password_hash"} |-> hashPassword(newPassword)]),
                     nid, NoEntity, Null, 1, 1)

updateCurrentUserPassword(u, nid, caller, currentPassword, newPassword) ==
    IF caller = NoUser THEN Return(u, nid, NoEntity, "Not authenticated", 0, 0)
    ELSE IF SelectPasswordHash(u, caller.id) = {}
            \/ SelectPasswordHash(u, caller.id) # {hashPassword(currentPassword)}
         THEN Return(u, nid, NoEntity, "Current password is incorrect", 1, 0)
         ELSE Return(UpdateRow(u, caller.id,
                               [f \in {"password_hash"} |-> hashPassword(newPassword)]),
                     nid, NoEntity, Null, 1, 1)

(* --------------------------- the state machine ------------------------ *)

Idle == [op |-> "idle"]

\* No getUsers(role, search) call yet.
NoListing == [op |-> "none"]

\* The payloads of createUser.
CreateData == [email : Emails, password : Passwords, full_name : Names, role : Roles]

\* The ids a caller can name: those of the table's rows, and those of none.
Ids == 1..MaxUsers

\* A deployed system: one administrator, no request in flight.
Init ==
    /\ users = [id \in {1} |-> Row("a@lib.edu", hashPassword("pw1"), "alice smith",
                                   "admin", "active")]
    /\ nextId = 2
    /\ pending = [p \in Procs |-> Idle]
    /\ listed = NoListing

\* A call of a handler ran from its first statement to its return (or throw).
Done(o) ==
    /\ users' = o.users
    /\ nextId' = o.nextId
    /\ UNCHANGED <<pending, listed>>

GetUsers ==
    \E c \in Callers(nextId), r \in Roles \cup {Undefined} :
        /\ getUsers(users, nextId, c, r).kind \in {"return", "throw"}
        /\ UNCHANGED vars

GetUserById ==
    \E id \in Ids :
        /\ getUserById(users, id) \in {NullUser} \cup {SomeUser(id, users[i]) : i \in DOMAIN users}
        /\ UNCHANGED vars

GetUserStats ==
    /\ getUserStats(users).total_users >= 0
    /\ UNCHANGED vars

GetUserStatsAll ==
    /\ getUserStatsAll(users).total_users >= 0
    /\ UNCHANGED vars

CreateUser ==
    \E c \in Callers(nextId), data \in CreateData :
        /\ createUser(users, nextId, c, data).nextId <= MaxUsers + 1
        /\ Done(createUser(users, nextId, c, data))

UpdateUser ==
    \E c \in Callers(nextId), id \in Ids, data \in UpdateData :
        Done(updateUser(users, nextId, c, id, data))

UpdateUserRole ==
    \E c \in Callers(nextId), id \in Ids, r \in Roles :
        Done(updateUserRole(users, nextId, c, id, r))

UpdateUserStatus ==
    \E c \in Callers(nextId), id \in Ids, s \in Statuses :
        Done(updateUserStatus(users, nextId, c, id, s))

DeleteUser ==
    \E c \in Callers(nextId), id \in Ids :
        Done(deleteUser(users, nextId, c, id))

DeleteUserPermanent ==
    \E c \in Callers(nextId), id \in Ids :
        Done(deleteUserPermanent(users, nextId, c, id))

UpdateCurrentUserProfile ==
    \E c \in Callers(nextId), data \in ProfileData :
        Done(updateCurrentUserProfile(users, nextId, c, data))

UpdateCurrentUserPassword ==
    \E c \in Callers(nextId), cur \in Passwords, new \in Passwords :
        Done(updateCurrentUserPassword(users, nextId, c, cur, new))

\* The handlers both versions share.
Shared ==
    \/ GetUsers
    \/ GetUserById
    \/ CreateUser
    \/ UpdateUser
    \/ UpdateUserRole
    \/ UpdateUserStatus
    \/ UpdateCurrentUserProfile
    \/ UpdateCurrentUserPassword

\* The version that soft-deletes, requests served one at a time.
Next ==
    \/ Shared
    \/ DeleteUser
    \/ GetUserStats

Spec == Init /\ [][Next]_vars

\* The version that deletes rows, requests served one at a time.
NextHard ==
    \/ Shared
    \/ DeleteUserPermanent
    \/ GetUserStatsAll

SpecHard == Init /\ [][NextHard]_vars

(* ------------------- requests that run concurrently ------------------ *)

\* Rows ever inserted when requests interleave.
MaxRaceUsers == 3

\* The payloads of the interleaved createUser and updateCurrentUserProfile.
RaceCreateData == [email : Emails, password : {"pw1"}, full_name : {"Bob"}, role : {"student"}]

RaceProfileData == [full_name : {Undefined}, email : Emails]

\* createUser, to its await of the SELECT: the role gate and the existence
\* check.  The request goes on to its INSERT, or has returned.
CreateUserSelect(p, c, data) ==
    /\ pending[p] = Idle
    /\ nextId + Cardinality({q \in Procs : pending[q].op = "createUser"}) <= MaxRaceUsers
    /\ IF requireRole(c, {"admin"}) /\ SelectIdByEmail(users, data.email) = {}
       THEN pending' = [pending EXCEPT ![p] = [op |-> "createUser", data |-> data]]
       ELSE UNCHANGED pending
    /\ UNCHANGED <<users, nextId, listed>>

\* createUser, from the SELECT's result to its return: the INSERT.
CreateUserInsert(p) ==
    /\ pending[p].op = "createUser"
    /\ users' = InsertUser(users, nextId, NewRow(pending[p].data))
    /\ nextId' = nextId + 1
    /\ pending' = [pending EXCEPT ![p] = Idle]
    /\ UNCHANGED listed

\* updateCurrentUserProfile with an email, to its await of the SELECT.
ProfileSelect(p, c, data) ==
    /\ pending[p] = Idle
    /\ Truthy(data.email)
    /\ IF c # NoUser /\ SelectIdByEmailExcept(users, data.email, c.id) = {}
       THEN pending' = [pending EXCEPT ![p] =
                           [op |-> "updateCurrentUserProfile", id |-> c.id, data |-> data]]
       ELSE UNCHANGED pending
    /\ UNCHANGED <<users, nextId, listed>>

\* updateCurrentUserProfile, from the SELECT's result to its return: the UPDATE.
ProfileUpdate(p) ==
    /\ pending[p].op = "updateCurrentUserProfile"
    /\ users' = UpdateRow(users, pending[p].id, ProfileUpdates(pending[p].data))
    /\ pending' = [pending EXCEPT ![p] = Idle]
    /\ UNCHANGED <<nextId, listed>>

\* Requests of createUser, updateCurrentUserProfile and deleteUser, each
\* statement of a request a step of its own.
NextRace ==
    \/ \E p \in Procs, c \in Callers(nextId), data \in RaceCreateData :
           CreateUserSelect(p, c, data)
    \/ \E p \in Procs : CreateUserInsert(p)
    \/ \E p \in Procs, c \in Callers(nextId), data \in RaceProfileData :
           ProfileSelect(p, c, data)
    \/ \E p \in Procs : ProfileUpdate(p)
    \/ DeleteUser

SpecRace == Init /\ [][NextRace]_vars

(* ----------------------- getUsers(role, search) ----------------------- *)

\* Texts are sequences of characters.  Longest text of a search.
MaxLen == 2

\* Rows of the tables that are searched.
MaxSearchRows == 2

\* A letter in both cases, another letter, LIKE's one-character wildcard and
\* SQL's string delimiter.
Chars == {"a", "A", "b", "_", "'"}

Texts == UNION {[1..n -> Chars] : n \in 0..MaxLen}

\* A column that is NULL, and an argument that is undefined.
NullText == <<"null">>

UndefinedText == <<"undefined">>

\* search.toLowerCase(), and SQL's LOWER(column), one character at a time.
LowerChar(c) == IF c = "A" THEN "a" ELSE c

Lower(t) == [i \in 1..Len(t) |-> LowerChar(t[i])]

\* text LIKE pattern: % stands for any characters, _ for any one character.
RECURSIVE Like(_, _)
Like(t, pattern) ==
    IF pattern = <<>> THEN t = <<>>
    ELSE IF Head(pattern) = "%"
         THEN Like(t, Tail(pattern)) \/ (t # <<>> /\ Like(Tail(t), pattern))
         ELSE /\ t # <<>>
              /\ Head(pattern) = "_" \/ Head(pattern) = Head(t)
              /\ Like(Tail(t), Tail(pattern))

\* LOWER(column) LIKE pattern: not true of a NULL column.
LowerLike(column, pattern) == column # NullText /\ Like(Lower(column), pattern)

\* (LOWER(full_name) LIKE p OR LOWER(email) LIKE p OR LOWER(university_id) LIKE p)
MatchesPattern(row, pattern) ==
    \/ LowerLike(row.full_name, pattern)
    \/ LowerLike(row.email, pattern)
    \/ LowerLike(row.university_id, pattern)

\* if (search): neither undefined nor the empty string.
TruthyText(t) == t # UndefinedText /\ t # <<>>

\* The version with parameters: `%${search.toLowerCase()}%` is a value.
SearchPattern(search) == <<"%">> \o Lower(search) \o <<"%">>

\* The version with parameters: the ids of the rows its query selects.
SelectParameterized(u, r, search) ==
    {id \in DOMAIN u :
        /\ u[id].status # "inactive"
        /\ r # Undefined => u[id].role = r
        /\ TruthyText(search) => MatchesPattern(u[id], SearchPattern(search))}

\* The version that writes the search into the text of the query, as the
\* literal '%...%': a quote in it that is not doubled ends the literal there.
RECURSIVE WellQuoted(_)
WellQuoted(t) ==
    IF t = <<>> THEN TRUE
    ELSE IF Head(t) # "'" THEN WellQuoted(Tail(t))
         ELSE Len(t) >= 2 /\ t[2] = "'" /\ WellQuoted(Tail(Tail(t)))

\* The value of the literal: a doubled quote stands for one quote.
RECURSIVE LiteralValue(_)
LiteralValue(t) ==
    IF t = <<>> THEN <<>>
    ELSE IF Head(t) = "'" THEN <<"'">> \o LiteralValue(Tail(Tail(t)))
         ELSE <<Head(t)>> \o LiteralValue(Tail(t))

\* The version that writes the search into the query: the ids of the rows
\* its query selects, when the text is a query.
SelectInterpolated(u, r, search) ==
    {id \in DOMAIN u :
        /\ u[id].status # "inactive"
        /\ r # Undefined => u[id].role = r
        /\ TruthyText(search) =>
               MatchesPattern(u[id], <<"%">> \o LiteralValue(Lower(search)) \o <<"%">>)}

\* ORDER BY created_at DESC: the orders the database may return the rows in.
OrderedByCreatedAtDesc(u, ids) ==
    {q \in [1..Cardinality(ids) -> ids] :
        /\ \A i \in 1..Len(q), j \in 1..Len(q) : i < j => q[i] # q[j]
        /\ \A i \in 1..Len(q), j \in 1..Len(q) :
               i < j => u[q[i]].created_at >= u[q[j]].created_at}

\* getUsers(role, search) of the version with parameters: its possible results.
getUsersParameterized(u, caller, r, search) ==
    IF ~requireRole(caller, {"admin"}) THEN {[kind |-> "throw", rows |-> <<>>]}
    ELSE {[kind |-> "return", rows |-> q] :
             q \in OrderedByCreatedAtDesc(u, SelectParameterized(u, r, search))}

\* getUsers(role, search) of the version that writes the search into the
\* query: the database refuses a text that is no query, and sql.unsafe throws.
getUsersInterpolated(u, caller, r, search) ==
    IF ~requireRole(caller, {"admin"}) THEN {[kind |-> "throw", rows |-> <<>>]}
    ELSE IF TruthyText(search) /\ ~WellQuoted(Lower(search))
         THEN {[kind |-> "throw", rows |-> <<>>]}
         ELSE {[kind |-> "return", rows |-> q] :
                  q \in OrderedByCreatedAtDesc(u, SelectInterpolated(u, r, search))}

\* The rows of the tables that are searched.
SearchNames == {<<"A", "b">>, <<"a", "'">>, <<"b">>}

\* The email of a row: another one for each id.
SearchEmail(id) == [i \in 1..(id + 1) |-> IF i = id + 1 THEN "@" ELSE "b"]

SearchRoles == {"student", "admin"}

SearchRow(id, full_name, role, status, university_id, created_at) ==
    [email |-> SearchEmail(id), password_hash |-> hashPassword("pw1"),
     full_name |-> full_name, role |-> role, status |-> status,
     university_id |-> university_id, created_at |-> created_at]

\* The rows an id can hold: the first row was created first.
SearchRows(id) ==
    {SearchRow(id, n, r, st, un, t) :
        n \in SearchNames, r \in SearchRoles, st \in {"active", "inactive"},
        un \in {NullText, <<"A">>}, t \in 1..id}

\* The tables of n rows, with ids 1..n.
RECURSIVE TablesOf(_)
TablesOf(n) ==
    IF n = 0 THEN {<<>>}
    ELSE {Append(u, row) : u \in TablesOf(n - 1), row \in SearchRows(n)}

\* Any table of the bounded rows; no getUsers call yet.
InitSearch ==
    /\ \E n \in 1..MaxSearchRows : users \in TablesOf(n)
    /\ nextId = Len(users) + 1
    /\ pending = [p \in Procs |-> Idle]
    /\ listed = NoListing

\* The arguments of getUsers.
SearchArguments == Texts \cup {UndefinedText}

RoleArguments == SearchRoles \cup {Undefined}

Listing(version, c, r, search, result) ==
    [op |-> "getUsers", version |-> version, caller |-> c, role |-> r, search |-> search,
     kind |-> result.kind, rows |-> result.rows]

GetUsersParameterized ==
    /\ listed = NoListing
    /\ \E c \in Callers(2), r \in RoleArguments, search \in SearchArguments :
           \E result \in getUsersParameterized(users, c, r, search) :
               listed' = Listing("parameterized", c, r, search, result)
    /\ UNCHANGED <<users, nextId, pending>>

GetUsersInterpolated ==
    /\ listed = NoListing
    /\ \E c \in Callers(2), r \in RoleArguments, search \in SearchArguments :
           \E result \in getUsersInterpolated(users, c, r, search) :
               listed' = Listing("interpolated", c, r, search, result)
    /\ UNCHANGED <<users, nextId, pending>>

\* One call of getUsers(role, search), of either version, on any table.
NextSearch ==
    \/ GetUsersParameterized
    \/ GetUsersInterpolated

SpecSearch == InitSearch /\ [][NextSearch]_vars

(* ------------------------------- claims ------------------------------- *)

IsAdmin(c) == c # NoUser /\ c.role = "admin"

\* A result that hands no row and no change of the table to its caller, and
\* issued no statement.
Untouched(o) ==
    /\ o.users = users
    /\ o.nextId = nextId
    /\ o.user \in {NullUser, NoEntity}
    /\ o.kind = "throw" \/ o.error # Null
    /\ o.reads = 0
    /\ o.writes = 0

\* C1: for a caller without a session user, or whose role is not admin, every
\* admin-only operation (getUsers, createUser, updateUser, updateUserRole,
\* updateUserStatus, deleteUser) fails before any statement on the users
\* table: the table is unchanged and no row is returned.
C1_NonAdminRejected ==
    \A c \in Callers(nextId) :
        ~IsAdmin(c) =>
            /\ \A r \in Roles \cup {Undefined} :
                   /\ getUsers(users, nextId, c, r).kind = "throw"
                   /\ getUsers(users, nextId, c, r).ids = {}
                   /\ getUsers(users, nextId, c, r).reads = 0
            /\ \A data \in CreateData : Untouched(createUser(users, nextId, c, data))
            /\ \A id \in Ids :
                   /\ \A data \in UpdateData : Untouched(updateUser(users, nextId, c, id, data))
                   /\ \A r \in Roles : Untouched(updateUserRole(users, nextId, c, id, r))
                   /\ \A st \in Statuses : Untouched(updateUserStatus(users, nextId, c, id, st))
                   /\ Untouched(deleteUser(users, nextId, c, id))

\* C1's case: a table of two rows, the second a librarian, whose session's
\* createUser, updateUserRole and deleteUser are refused.
C1_Witness ==
    /\ DOMAIN users = {1, 2}
    /\ users[2].role = "librarian"
    /\ \E c \in Callers(nextId) :
           /\ c = [id |-> 2, role |-> "librarian"]
           /\ deleteUser(users, nextId, c, 1).error = "Failed to delete user"
           /\ updateUserRole(users, nextId, c, 2, "admin").error = "Failed to update role"
           /\ \E data \in CreateData :
                  createUser(users, nextId, c, data).error = "Failed to create user"

\* C3: createUser by an admin with an email some row already holds, whatever
\* that row's status, returns { user: null, error } with an error, and leaves
\* the number of rows and every row unchanged.
C3_DuplicateEmailRefused ==
    \A c \in Callers(nextId), data \in CreateData :
        (IsAdmin(c) /\ \E id \in DOMAIN users : users[id].email = data.email) =>
            /\ createUser(users, nextId, c, data).user = NullUser
            /\ createUser(users, nextId, c, data).error # Null
            /\ createUser(users, nextId, c, data).kind = "return"
            /\ createUser(users, nextId, c, data).users = users
            /\ createUser(users, nextId, c, data).nextId = nextId

\* C3's case: a created row, now inactive, whose email a second createUser
\* by an admin is refused.
C3_Witness ==
    /\ 2 \in DOMAIN users
    /\ users[2].status = "inactive"
    /\ \E c \in Callers(nextId), data \in CreateData :
           /\ IsAdmin(c)
           /\ data.email = users[2].email
           /\ createUser(users, nextId, c, data).error = "Email already exists"

\* C8: updateUser by an admin with a payload that defines no field (the empty
\* object, or every field undefined) returns { user: null, error: "No updates
\* provided" } and writes nothing.
C8_EmptyUpdateRefused ==
    \A c \in Callers(nextId), id \in Ids, data \in UpdateData :
        (IsAdmin(c) /\ \A f \in DOMAIN data : data[f] = Undefined) =>
            /\ updateUser(users, nextId, c, id, data).user = NullUser
            /\ updateUser(users, nextId, c, id, data).error = "No updates provided"
            /\ updateUser(users, nextId, c, id, data).kind = "return"
            /\ updateUser(users, nextId, c, id, data).writes = 0
            /\ updateUser(users, nextId, c, id, data).users = users

\* C8's case: an admin's updateUser of a row of the table with every field
\* undefined, and with no field at all.
C8_Witness ==
    /\ DOMAIN users = {1, 2}
    /\ \E c \in Callers(nextId), data \in UpdateData :
           /\ IsAdmin(c)
           /\ DOMAIN data = UpdateFields
           /\ \A f \in DOMAIN data : data[f] = Undefined
           /\ updateUser(users, nextId, c, 2, data).error = "No updates provided"
           /\ updateUser(users, nextId, c, 2, [f \in {} |-> Undefined]).error
                  = "No updates provided"

\* What deleteUser(id) by an admin leaves, but for the count of users.
DeleteUserLeaves(o, id) ==
    /\ id \notin ListedIds(o.users, Undefined)
    /\ getUserById(o.users, id) = SomeUser(id, [users[id] EXCEPT !.status = "inactive"])

\* What the call deleteUser(id) by an admin does to the count of users, as
\* stated: one less.
DeleteUserCountsOneLess(id) ==
    \A c \in Callers(nextId) :
        IsAdmin(c) =>
            /\ DeleteUserLeaves(deleteUser(users, nextId, c, id), id)
            /\ getUserStats(deleteUser(users, nextId, c, id).users).total_users
                   = getUserStats(users).total_users - 1

\* C2, as stated: after deleteUser(id) by an admin on an id of the table,
\* getUsers() includes id in no later state, total_users is one less than
\* before the call, and getUserById(id) still returns the record.  A row is
\* in the state deleteUser left it in exactly when its status is inactive, so
\* "in no later state" says that no step lists an inactive row again.
C2_DeletedNeverListedAgain ==
    /\ [](\A id \in DOMAIN users : DeleteUserCountsOneLess(id))
    /\ [][\A id \in DOMAIN users :
              users[id].status = "inactive" => id \notin ListedIds(users', Undefined)]_vars

\* A step in which an admin's updateUserStatus or updateUser gives row id a
\* status other than inactive.
Reactivated(id) ==
    \E c \in Callers(nextId) :
        /\ IsAdmin(c)
        /\ \/ \E st \in Statuses \ {"inactive"} :
                  users' = updateUserStatus(users, nextId, c, id, st).users
           \/ \E data \in UpdateData :
                  /\ "status" \in DOMAIN data
                  /\ data["status"] \in Statuses \ {"inactive"}
                  /\ users' = updateUser(users, nextId, c, id, data).users

\* What the call deleteUser(id) by an admin does to the count of users: one
\* less, unless the row was inactive already.
DeleteUserCounts(id) ==
    \A c \in Callers(nextId) :
        IsAdmin(c) =>
            /\ DeleteUserLeaves(deleteUser(users, nextId, c, id), id)
            /\ getUserStats(deleteUser(users, nextId, c, id).users).total_users
                   = getUserStats(users).total_users
                     - (IF users[id].status = "inactive" THEN 0 ELSE 1)

\* C2, amended: after deleteUser(id) by an admin on an id of the table,
\* getUsers() does not include id until an admin's updateUserStatus or
\* updateUser gives the row a status other than inactive; total_users is one
\* less than before the call when the row was not inactive already, and the
\* same when it was; getUserById(id) returns the record then and later.
C2_DeletedUntilReactivated ==
    /\ [](\A id \in DOMAIN users : DeleteUserCounts(id))
    /\ [][\A id \in DOMAIN users :
              users[id].status = "inactive" =>
                  /\ getUserById(users', id) # NullUser
                  /\ id \in ListedIds(users', Undefined) => Reactivated(id)]_vars

\* C2's case: the second row was created and then deleted: it is inactive,
\* not listed, not counted, and found by its id.
C2_Witness ==
    /\ DOMAIN users = {1, 2}
    /\ users[1].status = "active"
    /\ users[2].status = "inactive"
    /\ ListedIds(users, Undefined) = {1}
    /\ getUserStats(users).total_users = 1
    /\ getUserById(users, 2) = SomeUser(2, users[2])

\* C5: updateCurrentUserPassword(current, new) replaces the session user's
\* password_hash by the hash of new only when the hash of current equals the
\* stored one; when it does not, or the row is absent, it returns an error
\* and no row's password_hash changes.
C5_PasswordVerified ==
    \A c \in Callers(nextId) \ {NoUser}, cur \in Passwords, new \in Passwords :
        IF c.id \in DOMAIN users /\ users[c.id].password_hash = hashPassword(cur)
        THEN /\ updateCurrentUserPassword(users, nextId, c, cur, new).error = Null
             /\ updateCurrentUserPassword(users, nextId, c, cur, new).users
                    = [users EXCEPT ![c.id].password_hash = hashPassword(new)]
        ELSE /\ updateCurrentUserPassword(users, nextId, c, cur, new).error # Null
             /\ updateCurrentUserPassword(users, nextId, c, cur, new).kind = "return"
             /\ updateCurrentUserPassword(users, nextId, c, cur, new).users = users

\* C5's case: the first user has changed the password; the second user was
\* deleted, and its session's call finds no row; a wrong current password is
\* refused.
C5_Witness ==
    /\ DOMAIN users = {1}
    /\ nextId = 3
    /\ users[1].password_hash = hashPassword("pw2")
    /\ \E c \in Callers(nextId) :
           /\ c.id = 2
           /\ updateCurrentUserPassword(users, nextId, c, "pw2", "pw1").error
                  = "Current password is incorrect"
    /\ \E c \in Callers(nextId) :
           /\ c.id = 1
           /\ updateCurrentUserPassword(users, nextId, c, "pw1", "pw1").error
                  = "Current password is incorrect"
           /\ updateCurrentUserPassword(users, nextId, c, "pw2", "pw1").error = Null

\* C6: a failure of the role gate reaches the caller as a thrown Unauthorized
\* in every gated operation, createUser, updateUser, updateUserRole,
\* updateUserStatus and deleteUser among them, never as a returned error.
C6_GateFailureThrown ==
    \A c \in Callers(nextId) :
        ~IsAdmin(c) =>
            /\ getUsers(users, nextId, c, Undefined).kind = "throw"
            /\ \A data \in CreateData : createUser(users, nextId, c, data).kind = "throw"
            /\ \A id \in Ids :
                   /\ \A data \in UpdateData :
                          updateUser(users, nextId, c, id, data).kind = "throw"
                   /\ \A r \in Roles : updateUserRole(users, nextId, c, id, r).kind = "throw"
                   /\ \A st \in Statuses :
                          updateUserStatus(users, nextId, c, id, st).kind = "throw"
                   /\ deleteUser(users, nextId, c, id).kind = "throw"

\* The rows that count: those whose status is not inactive, of a role.
ActiveOfRole(r) == {id \in DOMAIN users : users[id].status # "inactive" /\ users[id].role = r}

\* C7: a user whose status is inactive is absent from getUsers() and is
\* counted neither in total_users nor in a per-role count of getUserStats()
\* (here the statistics of the version that deletes rows).
C7_InactiveExcluded ==
    /\ \A id \in DOMAIN users :
           users[id].status = "inactive" =>
               \A r \in Roles \cup {Undefined} : id \notin ListedIds(users, r)
    /\ getUserStatsAll(users).total_users
           = Cardinality({id \in DOMAIN users : users[id].status # "inactive"})
    /\ getUserStatsAll(users).students = Cardinality(ActiveOfRole("student"))
    /\ getUserStatsAll(users).faculty = Cardinality(ActiveOfRole("faculty"))
    /\ getUserStatsAll(users).librarians = Cardinality(ActiveOfRole("librarian"))
    /\ getUserStatsAll(users).admins = Cardinality(ActiveOfRole("admin"))

\* C9: updateCurrentUserProfile and updateCurrentUserPassword write to the
\* row of the session user only: every other row is unchanged; without a
\* session user they return "Not authenticated" and write nothing.
C9_SelfServiceOwnRow ==
    \A c \in Callers(nextId) :
        /\ \A data \in ProfileData :
               /\ DOMAIN updateCurrentUserProfile(users, nextId, c, data).users = DOMAIN users
               /\ \A id \in DOMAIN users \ {c.id} :
                      updateCurrentUserProfile(users, nextId, c, data).users[id] = users[id]
               /\ c = NoUser =>
                      /\ updateCurrentUserProfile(users, nextId, c, data).error
                             = "Not authenticated"
                      /\ updateCurrentUserProfile(users, nextId, c, data).writes = 0
        /\ \A cur \in Passwords, new \in Passwords :
               /\ DOMAIN updateCurrentUserPassword(users, nextId, c, cur, new).users
                      = DOMAIN users
               /\ \A id \in DOMAIN users \ {c.id} :
                      updateCurrentUserPassword(users, nextId, c, cur, new).users[id]
                          = users[id]
               /\ c = NoUser =>
                      /\ updateCurrentUserPassword(users, nextId, c, cur, new).error
                             = "Not authenticated"
                      /\ updateCurrentUserPassword(users, nextId, c, cur, new).writes = 0

\* C9's case: the first user has taken another email and another password,
\* beside a second row that holds the first user's former email.
C9_Witness ==
    /\ DOMAIN users = {1, 2}
    /\ users[1].email = "b@lib.edu"
    /\ users[1].password_hash = hashPassword("pw2")
    /\ users[2].email = "a@lib.edu"
    /\ users[2].password_hash = hashPassword("pw1")

\* The table after a partial update of row id with the fields d defines.
PartialUpdate(id, d) ==
    [i \in DOMAIN users |->
        [f \in DOMAIN users[i] |->
            IF i = id /\ f \in DOMAIN d /\ d[f] # Undefined THEN d[f] ELSE users[i][f]]]

\* C10: updateUser(id, data) by an admin sets exactly the fields of row id
\* that data defines, and leaves its other fields and all other rows as they
\* were; updateUserRole changes the role of row id only, updateUserStatus its
\* status only.
C10_PartialUpdate ==
    \A c \in Callers(nextId), id \in Ids :
        IsAdmin(c) =>
            /\ \A data \in UpdateData :
                   updateUser(users, nextId, c, id, data).users = PartialUpdate(id, data)
            /\ \A r \in Roles :
                   updateUserRole(users, nextId, c, id, r).users
                       = PartialUpdate(id, [f \in {"role"} |-> r])
            /\ \A st \in Statuses :
                   updateUserStatus(users, nextId, c, id, st).users
                       = PartialUpdate(id, [f \in {"status"} |-> st])

\* C10's case: the second row has been renamed, given another role and
\* suspended, beside a first row still as it was created.
C10_Witness ==
    /\ DOMAIN users = {1, 2}
    /\ users[1] = Row("a@lib.edu", hashPassword("pw1"), "alice smith", "admin", "active")
    /\ users[2].status = "suspended"
    /\ users[2].role = "faculty"
    /\ \E c \in Callers(nextId) :
           /\ IsAdmin(c)
           /\ updateUser(users, nextId, c, 2, [f \in {"full_name"} |-> "Bob"]).users[2]
                  = [users[2] EXCEPT !.full_name = "Bob"]
           /\ updateUserRole(users, nextId, c, 2, "student").users[2]
                  = [users[2] EXCEPT !.role = "student"]

\* C4: in every reachable state, however the statements of concurrent
\* createUser and updateCurrentUserProfile requests interleave, no two rows
\* that are not deleted hold the same email.
C4_EmailUnique ==
    \A i \in DOMAIN users, j \in DOMAIN users :
        (i # j /\ users[i].status # "inactive" /\ users[j].status # "inactive")
            => users[i].email # users[j].email

\* text contains part
Contains(text, part) ==
    \E i \in 0..(Len(text) - Len(part)) : SubSeq(text, i + 1, i + Len(part)) = part

\* The rows getUsers(role, search) is to return: not inactive, of the role
\* when one is given, and with the search in full_name, email or
\* university_id, compared without regard to case, when one is given.
ExpectedIds(u, r, search) ==
    {id \in DOMAIN u :
        /\ u[id].status # "inactive"
        /\ r # Undefined => u[id].role = r
        /\ search # UndefinedText =>
               \E column \in {u[id].full_name, u[id].email, u[id].university_id} :
                   column # NullText /\ Contains(Lower(column), Lower(search))}

\* C11: for every table, role filter and search string, getUsers(role,
\* search) called by an admin returns exactly the rows that are not inactive,
\* of the role when one is given, and whose full_name, email or university_id
\* contains the search compared case-insensitively when one is given, ordered
\* by created_at descending; and the version that writes the search into the
\* query returns the same rows as the version with parameters.
C11_ListingExact ==
    (listed # NoListing /\ IsAdmin(listed.caller)) =>
        /\ listed.kind = "return"
        /\ {listed.rows[i] : i \in 1..Len(listed.rows)}
               = ExpectedIds(users, listed.role, listed.search)
        /\ Len(listed.rows) = Cardinality(ExpectedIds(users, listed.role, listed.search))
        /\ \A i \in 1..Len(listed.rows), j \in 1..Len(listed.rows) :
               i < j => users[listed.rows[i]].created_at >= users[listed.rows[j]].created_at
        /\ \E other \in getUsersParameterized(users, listed.caller, listed.role, listed.search) :
               /\ other.kind = listed.kind
               /\ {other.rows[i] : i \in 1..Len(other.rows)}
                      = {listed.rows[i] : i \in 1..Len(listed.rows)}

====
